---- MODULE Spec2Model ----
(***************************************************************************)
(* FinTech Monitor API (src/main.py): four read-only endpoints that fetch  *)
(* daily bars from the market-data provider (yfinance), reshape them into  *)
(* rows and wrap them in a {success, data, metadata} envelope.             *)
(*                                                                         *)
(* Numbers are fixed-point: a price p is the integer p * 10^5, so that the *)
(* provider can deliver closes at a finer precision than the 4 decimals    *)
(* the handlers round to.  A date string "YYYY-MM-DD" is the number of its *)
(* day: fixed-width ISO dates compare as strings exactly as their days     *)
(* compare as numbers.  metadata.last_update (the wall clock) is left out. *)
(***************************************************************************)
EXTENDS Integers, Sequences, FiniteSets, TLC

\* ---- bounds of the model
NumReqs == 2      \* request slots served concurrently
MaxBars == 2      \* longest series drawn for the row pipelines
MaxDay  == 2      \* calendar days a bar's timestamp may fall on
MaxTod  == 1      \* times of day (0 = midnight) a timestamp may carry

Decimals == 5     \* fixed-point digits a price carries

\* ---- program constants
SpreadDigits == 4             \* main.py:96-98, 128-130  round(.., 4)
PriceDigits == 2              \* main.py:163-164, 179-180  round(.., 2)
StatusError == 500            \* main.py:114  status_code=500

VARIABLES
    TICKERS,   \* main.py:30  the module-level ticker table
    req,       \* per request slot: the handler's position and locals
    frame,     \* row pipelines: the DataFrame handed to a row builder
    rows       \* row pipelines: what the builder made of it

vars == <<TICKERS, req, frame, rows>>

Reqs == 1..NumReqs

TickerTable == [us10y |-> "^TNX", jpy_fx |-> "JPY=X", gold |-> "GC=F", oil |-> "CL=F"]

\* ------------------------------------------------------------------------
\* Numbers

RECURSIVE Pow10(_)
Pow10(n) == IF n = 0 THEN 1 ELSE 10 * Pow10(n - 1)

\* round(x, ndigits): the closest multiple of 10^-ndigits, a tie going to
\* the even multiple (Python 3's round).
round(x, ndigits) ==
    LET q == Pow10(Decimals - ndigits)
        f == x \div q
        r == x % q
    IN  IF 2 * r < q THEN f * q
        ELSE IF 2 * r > q THEN (f + 1) * q
        ELSE IF f % 2 = 0 THEN f * q ELSE (f + 1) * q

\* main.py:89  jp_yield = 1.0
jp_yield == Pow10(Decimals)

\* Half a unit of the last digit round(.., 4) and round(.., 2) keep: the
\* provider's prices are multiples of these, so that ties occur.
Half4 == Pow10(Decimals - SpreadDigits) \div 2
Half2 == Pow10(Decimals - PriceDigits) \div 2

\* ------------------------------------------------------------------------
\* Bars and rows

\* date.strftime("%Y-%m-%d"): the calendar day, the time of day dropped.
strftime(ts) == ts.day

SpreadRow_unrounded(bar) ==
    [date   |-> strftime(bar.ts),
     us10y  |-> round(bar.Close, SpreadDigits),
     jp10y  |-> round(jp_yield, SpreadDigits),
     spread |-> bar.Close - jp_yield]

SpreadRow(bar) ==
    [date   |-> strftime(bar.ts),
     us10y  |-> round(bar.Close, SpreadDigits),
     jp10y  |-> round(jp_yield, SpreadDigits),
     spread |-> round(bar.Close - jp_yield, SpreadDigits)]

FxRow(bar) ==
    [date |-> strftime(bar.ts),
     rate |-> round(bar.Close, SpreadDigits),
     high |-> round(bar.High, SpreadDigits),
     low  |-> round(bar.Low, SpreadDigits)]

CommodityRow(bar) ==
    [date   |-> strftime(bar.ts),
     price  |-> round(bar.Close, PriceDigits),
     change |-> round(bar.Close - bar.Open, PriceDigits)]

\* sorted(data, key=lambda x: x['date']): a stable sort, equal dates keep
\* the order they were appended in.
RECURSIVE InsertByDate(_, _)
InsertByDate(s, x) ==
    IF s = <<>> THEN <<x>>
    ELSE IF s[Len(s)].date <= x.date THEN Append(s, x)
    ELSE Append(InsertByDate(SubSeq(s, 1, Len(s) - 1), x), s[Len(s)])

RECURSIVE sorted(_)
sorted(s) ==
    IF s = <<>> THEN <<>>
    ELSE InsertByDate(sorted(SubSeq(s, 1, Len(s) - 1)), s[Len(s)])

\* A pipeline that keeps the midnight bar of each day only.
spread_data_daily(us_data) ==
    LET daily == SelectSeq(us_data, LAMBDA b : b.ts.tod = 0)
    IN  [i \in 1..Len(daily) |-> SpreadRow(daily[i])]

\* for date, row in hist.iterrows(): data.append({...})
spread_data(us_data) == [i \in 1..Len(us_data) |-> SpreadRow(us_data[i])]
fx_data(hist)        == [i \in 1..Len(hist) |-> FxRow(hist[i])]
gold_data(hist)      == [i \in 1..Len(hist) |-> CommodityRow(hist[i])]

\* ------------------------------------------------------------------------
\* The provider: yf.Ticker(ticker).history(period=period) returns a
\* DataFrame (possibly empty) or raises.

Stamp(d, t) == [day |-> d, tod |-> t]

Bar(ts, close, open) ==
    [ts    |-> ts,
     Open  |-> open,
     High  |-> (IF close > open THEN close ELSE open) + Half4,
     Low   |-> (IF close > open THEN open ELSE close) - Half4,
     Close |-> close]

\* The series the provider serves to the endpoint handlers: a single bar,
\* two daily bars in date order, and three bars delivered newest first, two
\* of them on the same day.
SingleBar == << Bar(Stamp(1, 0), jp_yield + 3 * Half4, jp_yield) >>

InOrder ==
    << Bar(Stamp(1, 0), jp_yield - 3 * Half4, jp_yield),
       Bar(Stamp(2, 0), jp_yield, jp_yield + Half2) >>

NewestFirst ==
    << Bar(Stamp(2, 0), jp_yield + Half4, jp_yield + Half2),
       Bar(Stamp(1, 1), jp_yield - Half4, jp_yield),
       Bar(Stamp(1, 0), jp_yield + 2 * Half4, jp_yield - Half2) >>

HandlerSeries == {SingleBar, InOrder, NewestFirst}

\* Messages a provider error may carry; an exception raised without
\* arguments has the empty message.
ErrMsgs == {"", "Too Many Requests"}

Periods == {"5d", "1mo"}

Returned(hist) == [raised |-> FALSE, msg |-> "", hist |-> hist]
Failed(msg)    == [raised |-> TRUE, msg |-> msg, hist |-> <<>>]

Outcomes ==
    {Returned(h) : h \in HandlerSeries} \cup {Returned(<<>>)}
        \cup {Failed(m) : m \in ErrMsgs}

\* ------------------------------------------------------------------------
\* Exceptions and results

NoExc == [type |-> "", args |-> "", status_code |-> 0, detail |-> ""]

Exception(type, msg) ==
    [type |-> type, args |-> msg, status_code |-> 0, detail |-> ""]

HTTPException(status_code, detail) ==
    [type |-> "HTTPException", args |-> "",
     status_code |-> status_code, detail |-> detail]

Return(v) == [raised |-> FALSE, value |-> v, exc |-> NoExc]
Raise(e)  == [raised |-> TRUE, value |-> <<>>, exc |-> e]

\* str(e).  An exception built from a message prints that message.  An
\* HTTPException is built from keyword arguments only: Starlette before
\* it defined __str__ prints it as "", later releases as "500: <detail>";
\* the repository pins neither.
Str(e) ==
    IF e.type = "HTTPException"
    THEN {"", ToString(e.status_code) \o ": " \o e.detail}
    ELSE {e.args}

\* main.py:37-52
fetch_ticker_data(ticker, o) ==
    IF o.raised THEN Raise(Exception("Exception", o.msg))
    ELSE IF o.hist = <<>>
         THEN Raise(Exception("ValueError", "No data for " \o ticker))
         ELSE Return(o.hist)

\* ------------------------------------------------------------------------
\* The handlers, each from the result fr of its fetch_ticker_data call to
\* the set of results it can end with.

\* An except clause at a handler's boundary (main.py:112-114, 144-146,
\* 196-198, 223-225): raise HTTPException(status_code=500, detail=str(e)).
handler_except(e) == {Raise(HTTPException(StatusError, s)) : s \in Str(e)}

\* main.py:79-114
get_bond_spread(period, fr) ==
    IF fr.raised
    THEN handler_except(fr.exc)
    ELSE {Return([success  |-> TRUE,
                  data     |-> sorted(spread_data(fr.value)),
                  metadata |-> [period      |-> period,
                                data_points |-> Len(spread_data(fr.value))]])}

\* main.py:116-146
get_fx_rate(period, fr) ==
    IF fr.raised
    THEN handler_except(fr.exc)
    ELSE {Return([success  |-> TRUE,
                  data     |-> sorted(fx_data(fr.value)),
                  metadata |-> [pair |-> "USD/JPY", period |-> period]])}

\* A commodities block whose except clause is missing: the failure leaves
\* the block.
commodity_block_unguarded(fr) ==
    IF fr.raised THEN Raise(fr.exc) ELSE Return(sorted(gold_data(fr.value)))

\* main.py:157-170 and 173-186: one try block of get_commodities; its
\* except clause turns any failure into the empty list.
commodity_block(fr) ==
    IF fr.raised THEN Return(<<>>) ELSE Return(sorted(gold_data(fr.value)))

\* main.py:188-195
commodities_envelope(period, commodities) ==
    [success  |-> TRUE,
     data     |-> commodities,
     metadata |-> [period |-> period]]

\* main.py:211-222
all_envelope(period, bond_spread_result, fx_result, commodities_result) ==
    [success  |-> TRUE,
     data     |-> [bondSpread  |-> bond_spread_result.data,
                   fx          |-> fx_result.data,
                   commodities |-> commodities_result.data],
     metadata |-> [period |-> period]]

\* ------------------------------------------------------------------------
\* Requests

Endpoints == {"bond-spread", "fx", "commodities", "all"}

None == <<>>

Idle ==
    [pc |-> "idle", ep |-> "", period |-> "", at |-> "", log |-> <<>>,
     bond_spread_result |-> None, fx_result |-> None, commodities |-> None,
     resp |-> None]

\* The first provider call of each handler, by its key in TICKERS.
FirstTicker(ep) ==
    CASE ep = "bond-spread" -> "us10y"
      [] ep = "fx"          -> "jpy_fx"
      [] ep = "commodities" -> "gold"
      [] ep = "all"         -> "us10y"

\* get_commodities keeping its commodities dict at module level: a request
\* in its oil block reads the gold list another request has put there.
Locals_shared(r) ==
    LET writers == {q \in Reqs : req[q].at = "oil"}
        last == CHOOSE q \in writers : \A p \in writers : q <= p
    IN  IF req[r].at = "oil"
        THEN [req[r] EXCEPT !.commodities = req[last].commodities]
        ELSE req[r]

\* The locals of the handler serving request r (period and the results
\* it holds): each call has its own frame.
Locals(r) == req[r]

\* The oil block copied from the gold block with its key left unchanged.
TickerFor_copied(key) == IF key = "oil" THEN TICKERS["gold"] ELSE TICKERS[key]

\* TICKERS["us10y"], TICKERS["jpy_fx"], TICKERS["gold"], TICKERS["oil"]
TickerFor(key) == TICKERS[key]

\* The request answered: the result goes to the framework, the locals go.
Respond(q, res) ==
    [q EXCEPT !.pc = "done", !.at = "", !.bond_spread_result = None,
              !.fx_result = None, !.commodities = None, !.resp = res]

\* get_all_data goes on although a handler it awaited has raised.
awaited_swallowed(q, results, field, next) ==
    {[q EXCEPT ![field] = IF res.raised THEN [data |-> <<>>] ELSE res.value,
               !.at = next] : res \in results}

\* main.py:207-208 within 203-225: get_all_data awaits a handler; a
\* result is kept and the next call follows, a raise ends the request in
\* get_all_data's own except clause.
awaited(q, results, field, next) ==
    UNION {IF res.raised
           THEN {Respond(q, x) : x \in handler_except(res.exc)}
           ELSE {[q EXCEPT ![field] = res.value, !.at = next]} : res \in results}

\* What the handler does from the return of its pending provider call (with
\* outcome o) to its next provider call or to its response.
Continue(q, o) ==
    LET ticker == TickerFor(q.at)
        fr == fetch_ticker_data(ticker, o)
        q1 == [q EXCEPT !.log = Append(@, [ticker |-> ticker,
                                           period |-> q.period,
                                           outcome |-> o])]
        b  == commodity_block(fr)
        \* get_commodities ends: main.py:188-198
        ended == IF b.raised THEN handler_except(b.exc)
                 ELSE {Return(commodities_envelope(q.period,
                          [gold |-> q.commodities.gold, oil |-> b.value]))}
    IN  CASE q.at = "us10y" ->
                IF q.ep = "all"
                THEN awaited(q1, get_bond_spread(q.period, fr),
                             "bond_spread_result", "jpy_fx")
                ELSE {Respond(q1, res) : res \in get_bond_spread(q.period, fr)}
          [] q.at = "jpy_fx" ->
                IF q.ep = "all"
                THEN awaited(q1, get_fx_rate(q.period, fr), "fx_result", "gold")
                ELSE {Respond(q1, res) : res \in get_fx_rate(q.period, fr)}
          [] q.at = "gold" ->
                IF ~b.raised
                THEN {[q1 EXCEPT !.commodities = [gold |-> b.value], !.at = "oil"]}
                ELSE IF q.ep = "all"
                THEN awaited(q1, handler_except(b.exc), "commodities", "")
                ELSE {Respond(q1, res) : res \in handler_except(b.exc)}
          [] q.at = "oil" ->
                IF q.ep = "all"
                THEN UNION {IF res.raised
                            THEN {Respond(q1, x) : x \in handler_except(res.exc)}
                            ELSE {Respond(q1, Return(all_envelope(q.period,
                                      q.bond_spread_result, q.fx_result,
                                      res.value)))} : res \in ended}
                ELSE {Respond(q1, res) : res \in ended}

\* ------------------------------------------------------------------------
\* Actions

\* The handler of ep called with period, at its first provider call.
Started(ep, period) ==
    [Idle EXCEPT !.pc = "fetch", !.ep = ep, !.period = period,
                 !.at = FirstTicker(ep)]

\* A GET arrives: the handler runs up to its first provider call.
Start(r, ep, period) ==
    /\ req[r].pc = "idle"
    /\ req' = [req EXCEPT ![r] = Started(ep, period)]
    /\ UNCHANGED <<TICKERS, frame, rows>>

\* The pending provider call of request r returns (o), and the handler
\* runs on to its next provider call or to its response.
ProviderReturns(r, o) ==
    /\ req[r].pc = "fetch"
    /\ \E q \in Continue(Locals(r), o) : req' = [req EXCEPT ![r] = q]
    /\ UNCHANGED <<TICKERS, frame, rows>>

\* The response is serialized and the request's state discarded.
Deliver(r) ==
    /\ req[r].pc = "done"
    /\ req' = [req EXCEPT ![r] = Idle]
    /\ UNCHANGED <<TICKERS, frame, rows>>

NoRows == [kind |-> "none", data |-> <<>>]

Init ==
    /\ TICKERS = TickerTable
    /\ req = [r \in Reqs |-> Idle]
    /\ frame = <<>>
    /\ rows = NoRows

\* uvicorn.run(app) (main.py:230) serves the handlers on one event loop, and
\* a handler never yields to it (its provider calls block, the handlers it
\* awaits never suspend): a request is accepted when no other is in flight.
Next ==
    \/ \E r \in Reqs, ep \in Endpoints, period \in Periods :
          (\A q \in Reqs : req[q].pc = "idle") /\ Start(r, ep, period)
    \/ \E r \in Reqs, o \in Outcomes : ProviderReturns(r, o)
    \/ \E r \in Reqs : Deliver(r)

Spec == Init /\ [][Next]_vars

\* The runtime delivers a finished response; nothing in the code makes a
\* provider call return, or a client send a request.
LiveSpec == Spec /\ \A r \in Reqs : WF_vars(Deliver(r))

\* A hosting runtime that serves requests concurrently (a thread pool,
\* several workers), handlers interleaving at their provider calls.  The
\* provider here serves one series or fails.
ConcOutcomes == {Returned(NewestFirst), Failed("")}

ConcNext ==
    \/ \E r \in Reqs, ep \in Endpoints, period \in Periods : Start(r, ep, period)
    \/ \E r \in Reqs, o \in ConcOutcomes : ProviderReturns(r, o)
    \/ \E r \in Reqs : Deliver(r)

ConcSpec == Init /\ [][ConcNext]_vars

\* ------------------------------------------------------------------------
\* The row pipelines on their own: a DataFrame of up to MaxBars bars, in any
\* order, with any timestamps and prices of the sets below.

Stamps == {Stamp(d, t) : d \in 1..MaxDay, t \in 0..MaxTod}

\* <<Close, Open>>: ties of round(.., 4) above and below jp_yield, towards
\* an even and an odd digit, and a tie of round(.., 2).
Quotes ==
    { <<jp_yield + Half4, jp_yield>>,
      <<jp_yield + 3 * Half4, jp_yield + Half2>>,
      <<jp_yield - Half4, jp_yield - 3 * Half2>>,
      <<4 * jp_yield + 2 * Half4, 4 * jp_yield + Half4>> }

Bars == {Bar(ts, q[1], q[2]) : ts \in Stamps, q \in Quotes}

Frames == UNION {[1..n -> Bars] : n \in 1..MaxBars}

RowsInit ==
    /\ TICKERS = TickerTable
    /\ req = [r \in Reqs |-> Idle]
    /\ frame \in Frames
    /\ rows = NoRows

\* main.py:91-105
BuildSpread ==
    /\ rows = NoRows
    /\ rows' = [kind |-> "spread", data |-> sorted(spread_data(frame))]
    /\ UNCHANGED <<TICKERS, req, frame>>

\* main.py:124-137
BuildFx ==
    /\ rows = NoRows
    /\ rows' = [kind |-> "fx", data |-> sorted(fx_data(frame))]
    /\ UNCHANGED <<TICKERS, req, frame>>

\* main.py:159-166, 175-182
BuildCommodity ==
    /\ rows = NoRows
    /\ rows' = [kind |-> "commodity", data |-> sorted(gold_data(frame))]
    /\ UNCHANGED <<TICKERS, req, frame>>

RowsNext == BuildSpread \/ BuildFx \/ BuildCommodity

RowsSpec == RowsInit /\ [][RowsNext]_vars

\* ------------------------------------------------------------------------
\* Properties

IsRows(o) == ~o.raised /\ o.hist # <<>>
IsEmpty(o) == ~o.raised /\ o.hist = <<>>

Answered(r) == req[r].pc = "done"
Body(r) == req[r].resp.value
Is500(r) == req[r].resp.raised /\ req[r].resp.exc.status_code = StatusError
IsSuccess(r) == ~req[r].resp.raised /\ Body(r).success = TRUE

\* The provider calls of each endpoint, in program order.
CallOrder(ep) ==
    CASE ep = "bond-spread" -> <<"^TNX">>
      [] ep = "fx"          -> <<"JPY=X">>
      [] ep = "commodities" -> <<"GC=F", "CL=F">>
      [] ep = "all"         -> <<"^TNX", "JPY=X", "GC=F", "CL=F">>

Ascending(s) == \A i \in 1..(Len(s) - 1) : s[i].date <= s[i + 1].date
StrictlyAscending(s) == \A i \in 1..(Len(s) - 1) : s[i].date < s[i + 1].date

\* A commodity list against the outcome of its fetch.
ListMatches(list, o) ==
    IF IsRows(o) THEN Len(list) = Len(o.hist) ELSE list = <<>>

\* C1: whatever the gold and the oil fetch end with, /api/commodities
\* answers with a success envelope; a ticker whose fetch failed or was empty
\* has the empty list, one whose fetch returned rows has a row per bar, and
\* oil is fetched after gold whatever gold ended with.
C1_CommoditiesIsolatesFailures ==
    \A r \in Reqs :
        req[r].ep = "commodities" =>
            /\ Len(req[r].log) = 1 =>
                   req[r].pc = "fetch" /\ TICKERS[req[r].at] = "CL=F"
            /\ Answered(r) =>
                   /\ IsSuccess(r)
                   /\ Len(req[r].log) = 2
                   /\ req[r].log[1].ticker = "GC=F"
                   /\ req[r].log[2].ticker = "CL=F"
                   /\ ListMatches(Body(r).data.gold, req[r].log[1].outcome)
                   /\ ListMatches(Body(r).data.oil, req[r].log[2].outcome)

C1_Witness ==
    \E r \in Reqs :
        /\ Answered(r) /\ req[r].ep = "commodities"
        /\ req[r].log[1].outcome.raised
        /\ IsRows(req[r].log[2].outcome)
        /\ IsSuccess(r)
        /\ Body(r).data.gold = <<>>
        /\ Len(Body(r).data.oil) = Len(req[r].log[2].outcome.hist)

\* C2: when the provider call for JPY=X raises, whatever its message,
\* /api/fx answers 500 with a non-empty detail.
C2_FxFailureHasDetail ==
    \A r \in Reqs :
        (Answered(r) /\ req[r].ep = "fx" /\ req[r].log[1].outcome.raised) =>
            Is500(r) /\ req[r].resp.exc.detail # ""

\* C3: zero rows for ^TNX or JPY=X end the request with a 500 whose detail
\* is exactly "No data for <ticker>", in /api/bond-spread, /api/fx and
\* /api/all alike.
C3_NoDataDetail ==
    \A r \in Reqs :
        Answered(r) =>
            \A i \in 1..Len(req[r].log) :
                (/\ req[r].log[i].ticker \in {"^TNX", "JPY=X"}
                 /\ IsEmpty(req[r].log[i].outcome)) =>
                    /\ Is500(r)
                    /\ req[r].resp.exc.detail
                           = "No data for " \o req[r].log[i].ticker

\* C4: /api/all answers with a success envelope exactly when the ^TNX and
\* the JPY=X fetch both returned rows, whatever gold and oil ended with;
\* otherwise it answers 500 and returns no envelope.
C4_AllFailsAsAWhole ==
    \A r \in Reqs :
        (Answered(r) /\ req[r].ep = "all") =>
            LET log == req[r].log
                bothOk == /\ Len(log) >= 2
                          /\ log[1].ticker = "^TNX" /\ IsRows(log[1].outcome)
                          /\ log[2].ticker = "JPY=X" /\ IsRows(log[2].outcome)
            IN  IF bothOk
                THEN /\ IsSuccess(r)
                     /\ Len(log) = 4
                     /\ DOMAIN Body(r).data = {"bondSpread", "fx", "commodities"}
                ELSE /\ Is500(r)
                     /\ Body(r) = <<>>

C4_Witness ==
    \E r \in Reqs :
        /\ Answered(r) /\ req[r].ep = "all"
        /\ Len(req[r].log) = 2
        /\ IsRows(req[r].log[1].outcome)
        /\ ~IsRows(req[r].log[2].outcome)
        /\ Is500(r)

\* The series of a success response.
SeriesOf(r) ==
    CASE req[r].ep \in {"bond-spread", "fx"} -> {Body(r).data}
      [] req[r].ep = "commodities" -> {Body(r).data.gold, Body(r).data.oil}
      [] req[r].ep = "all" ->
            {Body(r).data.bondSpread, Body(r).data.fx,
             Body(r).data.commodities.gold, Body(r).data.commodities.oil}

\* C5: every series of every success response is strictly ascending by
\* date, with no date twice.
C5_SeriesStrictlyAscending ==
    \A r \in Reqs :
        (Answered(r) /\ ~req[r].resp.raised) =>
            \A s \in SeriesOf(r) : StrictlyAscending(s)

\* The days on which some series served to the handlers has a bar.
HandlerDays == UNION {{strftime(h[i].ts) : i \in 1..Len(h)} : h \in HandlerSeries}

Count(days, d) == Cardinality({i \in 1..Len(days) : days[i] = d})

C7_EveryRequestAnswered ==
    \A r \in Reqs : (req[r].pc = "fetch") ~> (req[r].pc = "done")

\* The states the handler of ep, called with period and served alone, can
\* be in once its provider calls have returned outs, in this order.
RECURSIVE SoloRun(_, _, _)
SoloRun(ep, period, outs) ==
    IF outs = <<>> THEN {Started(ep, period)}
    ELSE UNION {IF q.pc = "fetch" THEN Continue(q, outs[Len(outs)]) ELSE {} :
                  q \in SoloRun(ep, period, SubSeq(outs, 1, Len(outs) - 1))}

C9_SpreadOfEmittedYields ==
    rows.kind = "spread" =>
        \A i \in 1..Len(rows.data) :
            rows.data[i].spread
                = round(rows.data[i].us10y - rows.data[i].jp10y, SpreadDigits)

C9_Witness ==
    /\ rows.kind = "spread"
    /\ Len(rows.data) = Len(frame)
    /\ \E i \in 1..Len(frame) :
           /\ frame[i].Close % (2 * Half4) # 0
           /\ frame[i].Close < jp_yield

\* C10: the provider calls of a request are a prefix of its endpoint's
\* calls in program order, each made once and with the request's period;
\* a request is answered without a further call once ^TNX or JPY=X has
\* failed or come back empty, and otherwise after all its calls.
C10_FixedOrderNoRetry ==
    \A r \in Reqs :
        req[r].pc # "idle" =>
            LET log == req[r].log
                order == CallOrder(req[r].ep)
            IN  /\ Len(log) <= Len(order)
                /\ \A i \in 1..Len(log) :
                       /\ log[i].ticker = order[i]
                       /\ log[i].period = req[r].period
                       /\ (log[i].ticker \in {"^TNX", "JPY=X"}
                              /\ ~IsRows(log[i].outcome)) =>
                             (i = Len(log) /\ Answered(r))
                /\ req[r].pc = "fetch" =>
                       /\ Len(log) < Len(order)
                       /\ TickerTable[req[r].at] = order[Len(log) + 1]
                /\ (Answered(r) /\ IsRows(log[Len(log)].outcome)) =>
                       Len(log) = Len(order)
                /\ (Answered(r) /\ req[r].ep = "commodities") => Len(log) = 2

C10_Witness ==
    \E r \in Reqs :
        /\ Answered(r) /\ req[r].ep = "all"
        /\ Len(req[r].log) = 2
        /\ req[r].log[2].ticker = "JPY=X"
        /\ req[r].log[2].outcome.raised

====
